---- MODULE Spec2Model ----
(***************************************************************************)
(* The concurrent pipeline of password_generator.py: the supervisor        *)
(* (main), the generator workers (worker_process), the bounded queue, the  *)
(* batching writer (writer_process) and the SQLite store (PasswordDB).     *)
(***************************************************************************)
EXTENDS Integers, Sequences, FiniteSets, TLC

\* ------------------------------------------------------------------ bounds
\* Longest dictionary (after filtering) the pipeline runs are started with.
MaxWords == 2
\* Largest config.max_workers the pipeline runs are started with.
MaxWorkers == 2
\* Number of distinct strings enhance_password can return.
NumCand == 2
\* Number of variations generate_variations yields per word.
NumVariations == 1
\* maxsize of the manager queue (100000 in the source, scaled down).
QueueMaxsize == 1
\* config.batch_size (10000 in the source, scaled down).
BatchSize == 2
\* Longest dictionary and largest max_workers of the startup runs.
MaxStartupWords == 7
MaxStartupWorkers == 8

Candidates == 1..NumCand

\* ------------------------------------------------------------------ helpers
Min(a, b) == IF a < b THEN a ELSE b

Range(s) == {s[i] : i \in 1..Len(s)}

RECURSIVE SetToSeq(_)
SetToSeq(S) ==
    IF S = {} THEN <<>>
    ELSE LET m == CHOOSE x \in S : \A y \in S : x <= y
         IN <<m>> \o SetToSeq(S \ {m})

\* random.shuffle(word_chunk): every ordering of the chunk is possible.
Shuffles(chunk) ==
    LET n == Len(chunk)
        Bij == {f \in [1..n -> 1..n] : \A i, j \in 1..n : f[i] = f[j] => i = j}
    IN {[i \in 1..n |-> chunk[f[i]]] : f \in Bij}

\* ------------------------------------------------------------------ PasswordDB
\* The database file: whether the passwords table exists, and its rows in
\* insertion order (password is the primary key, created the timestamp).
Keys(d) == {d.rows[i].password : i \in 1..Len(d.rows)}

\* CURRENT_TIMESTAMP as a logical clock: later than every stored row.
Now(d) ==
    LET ts == {d.rows[i].created : i \in 1..Len(d.rows)}
    IN IF ts = {} THEN 1 ELSE 1 + (CHOOSE t \in ts : \A u \in ts : u <= t)

\* Faulty variant: the table is created anew, whatever it held.
InitDbDropping(d) == [created |-> TRUE, rows |-> <<>>]

\* CREATE TABLE IF NOT EXISTS ... ; CREATE INDEX IF NOT EXISTS ...
_init_db(d) == IF d.created THEN d ELSE [created |-> TRUE, rows |-> <<>>]

\* SELECT 1 FROM passwords WHERE password = ?
exists(d, password) == \E i \in 1..Len(d.rows) : d.rows[i].password = password

\* Faulty variant: a plain INSERT that does not look for the key.
InsertAlways(rows, pwd, ts) == Append(rows, [password |-> pwd, created |-> ts])

\* One INSERT OR IGNORE: a row whose key is stored already is skipped.
InsertOrIgnore(rows, pwd, ts) ==
    IF \E i \in 1..Len(rows) : rows[i].password = pwd
    THEN rows
    ELSE Append(rows, [password |-> pwd, created |-> ts])

RECURSIVE ExecuteMany(_, _, _)
ExecuteMany(rows, passwords, ts) ==
    IF passwords = <<>> THEN rows
    ELSE ExecuteMany(InsertOrIgnore(rows, Head(passwords), ts), Tail(passwords), ts)

\* Faulty variant: a row nobody supplied is stored with the batch.
InsertBatchWithExtraRow(d, passwords) ==
    [d EXCEPT !.rows = ExecuteMany(d.rows, passwords \o <<0>>, Now(d))]

\* executemany(...) and commit, in one transaction.
insert_batch(d, passwords) ==
    [d EXCEPT !.rows = ExecuteMany(d.rows, passwords, Now(d))]

\* ------------------------------------------------------------------ pure parts of main
\* ['cat', 'dog', 'sun', 'bird', 'password', 'hello']
FallbackWords == <<"cat", "dog", "sun", "bird", "password", "hello">>

\* The words a dictionary file of n accepted lines yields.
DictPool == <<"able", "baby", "cafe", "dare", "easy", "face", "gate", "hair">>
DictFile(n) == SubSeq(DictPool, 1, n)

\* try: read and filter the file; except FileNotFoundError: the fallback.
load_dictionary(present, file) == IF present THEN file ELSE FallbackWords

\* chunk_size = len(words) // config.max_workers
ChunkSize(ws, n) == Len(ws) \div n

\* range(0, len(words), chunk_size) raises ValueError when chunk_size is 0.
PartitionRaises(ws, n) == ChunkSize(ws, n) = 0

\* [words[i:i+chunk_size] for i in range(0, len(words), chunk_size)]
WordChunks(ws, n) ==
    LET cs == ChunkSize(ws, n)
        k  == (Len(ws) + cs - 1) \div cs
    IN [j \in 1..k |-> SubSeq(ws, (j - 1) * cs + 1, Min(j * cs, Len(ws)))]

\* ------------------------------------------------------------------ candidate source
\* generate_variations(word): a finite sequence of variations of the word.
generate_variations(word) == [i \in 1..NumVariations |-> <<word, i>>]

\* enhance_password(variation) draws positions, digits and symbols with
\* random.*: the set of strings it may return.
enhance_password(variation) == Candidates

\* ------------------------------------------------------------------ state
VARIABLES
    dict_present,   \* config.dictionary_path can be opened
    dict_file,      \* the accepted words of the dictionary file
    max_workers,    \* config.max_workers
    db,             \* the database file
    prior,          \* history: the keys stored before the run
    mpc,            \* main: position
    words,          \* main: words
    word_chunks,    \* main: word_chunks
    workers,        \* main: workers; each entry is the state of one worker_process
    stop_event,     \* manager.Event()
    output_queue,   \* manager.Queue(maxsize)
    wrpc,           \* writer_process: position
    batch,          \* writer_process: batch
    popped,         \* history: the candidates the writer took off the queue
    owed,           \* history: the items queued when the event was first set
                    \* (queued), and how many of them are not yet taken (left)
    reported        \* the last "Workers active" count main logged

vars == <<dict_present, dict_file, max_workers, db, prior, mpc, words, word_chunks,
          workers, stop_event, output_queue, wrpc, batch, popped, owed, reported>>

cfgvars == <<dict_present, dict_file, max_workers, prior>>
mainvars == <<mpc, words, word_chunks, reported>>
writervars == <<wrpc, batch, popped>>

PriorDbs ==
    {[created |-> FALSE, rows |-> <<>>]} \cup
    {[created |-> TRUE,
      rows |-> [i \in 1..Cardinality(S) |->
                   [password |-> SetToSeq(S)[i], created |-> 0]]] :
        S \in SUBSET Candidates}

InitWith(presents, maxlen, maxn) ==
    /\ dict_present \in presents
    /\ dict_file \in {DictFile(n) : n \in 0..maxlen}
    /\ max_workers \in 1..maxn
    /\ db \in PriorDbs
    /\ prior = Keys(db)
    /\ mpc = "init_db"
    /\ words = <<>>
    /\ word_chunks = <<>>
    /\ workers = <<>>
    /\ stop_event = FALSE
    /\ output_queue = <<>>
    /\ wrpc = "unborn"
    /\ batch = <<>>
    /\ popped = {}
    /\ owed = [queued |-> 0, left |-> 0]
    /\ reported = 0

Init == InitWith({TRUE}, MaxWords, MaxWorkers)

StartupInit == InitWith(BOOLEAN, MaxStartupWords, MaxStartupWorkers)

\* ------------------------------------------------------------------ main
\* db = PasswordDB(config.db_path)
MainInitDb ==
    /\ mpc = "init_db"
    /\ db' = _init_db(db)
    /\ mpc' = "load"
    /\ UNCHANGED <<cfgvars, owed, words, word_chunks, reported, workers, stop_event,
                   output_queue, writervars>>

\* words = load_dictionary()
MainLoad ==
    /\ mpc = "load"
    /\ words' = load_dictionary(dict_present, dict_file)
    /\ mpc' = "setup"
    /\ UNCHANGED <<cfgvars, owed, db, word_chunks, reported, workers, stop_event,
                   output_queue, writervars>>

\* manager, stop_event, output_queue; the two signal handlers are installed.
MainSetup ==
    /\ mpc = "setup"
    /\ stop_event' = FALSE
    /\ output_queue' = <<>>
    /\ mpc' = "partition"
    /\ UNCHANGED <<cfgvars, owed, db, words, word_chunks, reported, workers, writervars>>

\* chunk_size and word_chunks; a ValueError is not caught: main dies.
MainPartition ==
    /\ mpc = "partition"
    /\ IF PartitionRaises(words, max_workers)
       THEN /\ mpc' = "crashed"
            /\ UNCHANGED word_chunks
       ELSE /\ word_chunks' = WordChunks(words, max_workers)
            /\ mpc' = "spawn"
    /\ UNCHANGED <<cfgvars, owed, db, words, reported, workers, stop_event,
                   output_queue, writervars>>

\* pushed, repushed and late are history: the strings the worker has put, whether
\* it put one of them twice, and how many puts it completed with the event set.
NewWorker(chunk) ==
    [pc |-> "start", word_chunk |-> chunk, widx |-> 0, vidx |-> 0,
     enhanced |-> 0, bloom_filter |-> {}, pushed |-> {}, repushed |-> FALSE,
     late |-> 0]

\* for chunk in word_chunks: Process(target=worker_process, ...).start()
MainSpawnWorker ==
    /\ mpc = "spawn"
    /\ Len(workers) < Len(word_chunks)
    /\ workers' = Append(workers, NewWorker(word_chunks[Len(workers) + 1]))
    /\ UNCHANGED <<cfgvars, owed, db, mainvars, stop_event, output_queue, writervars>>

\* writer = Process(target=writer_process, ...); writer.start()
MainSpawnWriter ==
    /\ mpc = "spawn"
    /\ Len(workers) = Len(word_chunks)
    /\ wrpc' = "start"
    /\ mpc' = "monitor"
    /\ UNCHANGED <<cfgvars, owed, db, words, word_chunks, reported, workers, stop_event,
                   output_queue, batch, popped>>

\* p.is_alive()
IsAlive(w) == w.pc \notin {"done"}

RECURSIVE CountAlive(_)
CountAlive(ws) ==
    IF ws = <<>> THEN 0
    ELSE (IF IsAlive(Head(ws)) THEN 1 ELSE 0) + CountAlive(Tail(ws))

\* while not stop_event.is_set(): ... / finally:
MainMonitor ==
    /\ mpc = "monitor"
    /\ mpc' = IF stop_event THEN "join_workers" ELSE "report"
    /\ UNCHANGED <<cfgvars, owed, db, words, word_chunks, reported, workers, stop_event,
                   output_queue, writervars>>

\* time.sleep(1); logger.info(... Workers active ...)
MainReport ==
    /\ mpc = "report"
    /\ reported' = CountAlive(workers)
    /\ mpc' = "monitor"
    /\ UNCHANGED <<cfgvars, owed, db, words, word_chunks, workers, stop_event,
                   output_queue, writervars>>

\* for p in workers: p.join()
MainJoinWorkers ==
    /\ mpc = "join_workers"
    /\ \A i \in 1..Len(workers) : ~IsAlive(workers[i])
    /\ mpc' = "join_writer"
    /\ UNCHANGED <<cfgvars, owed, db, words, word_chunks, reported, workers, stop_event,
                   output_queue, writervars>>

\* writer.join(); logger.info("Shutdown complete")
MainJoinWriter ==
    /\ mpc = "join_writer"
    /\ wrpc \in {"done", "crashed"}
    /\ mpc' = "done"
    /\ UNCHANGED <<cfgvars, owed, db, words, word_chunks, reported, workers, stop_event,
                   output_queue, writervars>>

\* Faulty variant: the handler flips the event instead of setting it.
SignalToggles ==
    /\ mpc \in {"partition", "spawn", "monitor", "report", "join_workers", "join_writer"}
    /\ stop_event' = ~stop_event
    /\ owed' = IF stop_event THEN owed
               ELSE [queued |-> Len(output_queue), left |-> Len(output_queue)]
    /\ UNCHANGED <<cfgvars, db, mainvars, workers, output_queue, writervars>>

\* SIGINT or SIGTERM is delivered: shutdown() sets the event.
Signal ==
    /\ mpc \in {"partition", "spawn", "monitor", "report", "join_workers", "join_writer"}
    /\ stop_event' = TRUE
    /\ owed' = IF stop_event THEN owed
               ELSE [queued |-> Len(output_queue), left |-> Len(output_queue)]
    /\ UNCHANGED <<cfgvars, db, mainvars, workers, output_queue, writervars>>

\* ------------------------------------------------------------------ worker_process
\* Faulty variant: the worker's own set is not consulted.
CandidateUnfiltered(w, wi, vi, e) ==
    [w EXCEPT !.widx = wi, !.vidx = vi, !.enhanced = e, !.pc = "exists"]

\* The next (word, variation) of the pass is enhanced and looked up in the
\* worker's own set: a seen candidate goes straight to the stop check.
Candidate(w, wi, vi, e) ==
    [w EXCEPT !.widx = wi, !.vidx = vi,
              !.enhanced = IF e \in w.bloom_filter THEN 0 ELSE e,
              !.pc = IF e \in w.bloom_filter THEN "check" ELSE "exists"]

\* Faulty variant: the worker returns at the end of its first pass.
AdvanceOnePass(w) ==
    IF w.vidx < NumVariations
    THEN {Candidate(w, w.widx, w.vidx + 1, e) :
            e \in enhance_password(generate_variations(w.word_chunk[w.widx])[w.vidx + 1])}
    ELSE IF w.widx < Len(w.word_chunk)
    THEN {Candidate(w, w.widx + 1, 1, e) :
            e \in enhance_password(generate_variations(w.word_chunk[w.widx + 1])[1])}
    ELSE {[w EXCEPT !.pc = "done", !.widx = 0, !.vidx = 0, !.enhanced = 0]}

\* The states a worker can be in once 'for variation in ...' moves on.
Advance(w) ==
    IF w.vidx < NumVariations
    THEN {Candidate(w, w.widx, w.vidx + 1, e) :
            e \in enhance_password(generate_variations(w.word_chunk[w.widx])[w.vidx + 1])}
    ELSE IF w.widx < Len(w.word_chunk)
    THEN {Candidate(w, w.widx + 1, 1, e) :
            e \in enhance_password(generate_variations(w.word_chunk[w.widx + 1])[1])}
    ELSE {[w EXCEPT !.pc = "outer", !.widx = 0, !.vidx = 0, !.enhanced = 0]}

Returned(w) == [w EXCEPT !.pc = "done", !.widx = 0, !.vidx = 0, !.enhanced = 0]

\* db = PasswordDB(config.db_path); bloom_filter = set()
WorkerStart(i) ==
    /\ workers[i].pc = "start"
    /\ db' = _init_db(db)
    /\ workers' = [workers EXCEPT ![i].pc = "outer", ![i].bloom_filter = {}]
    /\ UNCHANGED <<cfgvars, owed, mainvars, stop_event, output_queue, writervars>>

\* while not stop_event.is_set(): random.shuffle(word_chunk); first candidate
WorkerOuter(i) ==
    /\ workers[i].pc = "outer"
    /\ IF stop_event
       THEN workers' = [workers EXCEPT ![i] = Returned(@)]
       ELSE \E order \in Shuffles(workers[i].word_chunk) :
              \E nw \in Advance([workers[i] EXCEPT !.word_chunk = order,
                                                   !.widx = 0,
                                                   !.vidx = NumVariations]) :
                 workers' = [workers EXCEPT ![i] = nw]
    /\ UNCHANGED <<cfgvars, owed, db, mainvars, stop_event, output_queue, writervars>>

\* Faulty variant: the candidate is put whatever the store holds.
WorkerExistsUnchecked(i) ==
    /\ workers[i].pc = "exists"
    /\ workers' = [workers EXCEPT ![i].pc = "put"]
    /\ UNCHANGED <<cfgvars, owed, db, mainvars, stop_event, output_queue, writervars>>

\* if not db.exists(enhanced):
WorkerExists(i) ==
    /\ workers[i].pc = "exists"
    /\ workers' = [workers EXCEPT ![i].pc =
                     IF exists(db, workers[i].enhanced) THEN "check" ELSE "put",
                   ![i].enhanced =
                     IF exists(db, workers[i].enhanced) THEN 0 ELSE @]
    /\ UNCHANGED <<cfgvars, owed, db, mainvars, stop_event, output_queue, writervars>>

\* Faulty variant: a queue created without maxsize never makes put wait.
PutUnbounded(q) == TRUE

\* Queue.put with no timeout: returns once the queue has a free slot.
PutReady(q) == Len(q) < QueueMaxsize

\* output_queue.put(enhanced)
WorkerPut(i) ==
    /\ workers[i].pc = "put"
    /\ PutReady(output_queue)
    /\ output_queue' = Append(output_queue, workers[i].enhanced)
    /\ workers' = [workers EXCEPT
                      ![i].pc = "add",
                      ![i].pushed = @ \cup {workers[i].enhanced},
                      ![i].repushed = @ \/ workers[i].enhanced \in workers[i].pushed,
                      ![i].late = IF stop_event THEN @ + 1 ELSE @]
    /\ UNCHANGED <<cfgvars, owed, db, mainvars, stop_event, writervars>>

\* Faulty variant: the event is only looked at between passes.
StopCheckPerPass(i, w) ==
    \E nw \in Advance(w) : workers' = [workers EXCEPT ![i] = nw]

\* if stop_event.is_set(): return -- else the for loops move on.
StopCheck(i, w) ==
    IF stop_event
    THEN workers' = [workers EXCEPT ![i] = Returned(w)]
    ELSE \E nw \in Advance(w) : workers' = [workers EXCEPT ![i] = nw]

\* bloom_filter.add(enhanced), then the stop check
WorkerAdd(i) ==
    /\ workers[i].pc = "add"
    /\ StopCheck(i, [workers[i] EXCEPT !.bloom_filter = @ \cup {workers[i].enhanced}])
    /\ UNCHANGED <<cfgvars, owed, db, mainvars, stop_event, output_queue, writervars>>

\* the stop check after a candidate that was not pushed
WorkerCheck(i) ==
    /\ workers[i].pc = "check"
    /\ StopCheck(i, workers[i])
    /\ UNCHANGED <<cfgvars, owed, db, mainvars, stop_event, output_queue, writervars>>

Worker(i) ==
    \/ WorkerStart(i)
    \/ WorkerOuter(i)
    \/ WorkerExists(i)
    \/ WorkerPut(i)
    \/ WorkerAdd(i)
    \/ WorkerCheck(i)

\* ------------------------------------------------------------------ writer_process
\* db = PasswordDB(config.db_path); batch = []
WriterStart ==
    /\ wrpc = "start"
    /\ db' = _init_db(db)
    /\ batch' = <<>>
    /\ wrpc' = "loop"
    /\ UNCHANGED <<cfgvars, owed, mainvars, workers, stop_event, output_queue, popped>>

\* Faulty variant: the inner while compares with <=.
FillOffByOne(b) == IF Len(b) <= BatchSize THEN "get" ELSE "flush"

\* while len(batch) < config.batch_size: get, else insert_batch
Fill(b) == IF Len(b) < BatchSize THEN "get" ELSE "flush"

\* Faulty variant: the loop ends with the event, whatever is still queued.
LoopUntilStop == ~stop_event

\* Faulty variant: the loop condition never looks at the queue or the event.
LoopForever == TRUE

\* while not stop_event.is_set() or not output_queue.empty():
LoopCondition == ~stop_event \/ output_queue # <<>>

WriterLoop ==
    /\ wrpc = "loop"
    /\ wrpc' = IF LoopCondition THEN Fill(batch) ELSE "final"
    /\ UNCHANGED <<cfgvars, owed, db, mainvars, workers, stop_event, output_queue,
                   batch, popped>>

\* pwd = output_queue.get(timeout=1); batch.append(pwd)
WriterGet ==
    /\ wrpc = "get"
    /\ output_queue # <<>>
    /\ batch' = Append(batch, Head(output_queue))
    /\ popped' = popped \cup {Head(output_queue)}
    /\ output_queue' = Tail(output_queue)
    /\ wrpc' = Fill(batch')
    /\ owed' = IF owed.left > 0 THEN [owed EXCEPT !.left = @ - 1] ELSE owed
    /\ UNCHANGED <<cfgvars, db, mainvars, workers, stop_event>>

\* get(timeout=1) raises queue.Empty; except Exception: back to the while
WriterTimeout ==
    /\ wrpc = "get"
    /\ output_queue = <<>>
    /\ wrpc' = "loop"
    /\ UNCHANGED <<cfgvars, owed, db, mainvars, workers, stop_event, output_queue,
                   batch, popped>>

\* db.insert_batch(batch); batch = []
WriterFlush ==
    /\ wrpc = "flush"
    /\ db' = insert_batch(db, batch)
    /\ batch' = <<>>
    /\ wrpc' = "loop"
    /\ UNCHANGED <<cfgvars, owed, mainvars, workers, stop_event, output_queue, popped>>

\* db.insert_batch(batch) raises (the database is locked, the disk is full):
\* the transaction is rolled back; except Exception: back to the while
WriterFlushFails ==
    /\ wrpc = "flush"
    /\ wrpc' = "loop"
    /\ UNCHANGED <<cfgvars, owed, db, mainvars, workers, stop_event, output_queue,
                   batch, popped>>

\* if batch: db.insert_batch(batch) -- and the process ends
WriterFinal ==
    /\ wrpc = "final"
    /\ db' = IF batch # <<>> THEN insert_batch(db, batch) ELSE db
    /\ wrpc' = "done"
    /\ UNCHANGED <<cfgvars, owed, mainvars, workers, stop_event, output_queue, batch, popped>>

\* the final insert_batch raises outside the try: the process dies
WriterFinalFails ==
    /\ wrpc = "final"
    /\ batch # <<>>
    /\ wrpc' = "crashed"
    /\ UNCHANGED <<cfgvars, owed, db, mainvars, workers, stop_event, output_queue,
                   batch, popped>>

\* ------------------------------------------------------------------ specifications
Main ==
    \/ MainInitDb
    \/ MainLoad
    \/ MainSetup
    \/ MainPartition
    \/ MainSpawnWorker
    \/ MainSpawnWriter
    \/ MainMonitor
    \/ MainReport
    \/ MainJoinWorkers
    \/ MainJoinWriter

Writer ==
    \/ WriterStart
    \/ WriterLoop
    \/ WriterGet
    \/ WriterTimeout
    \/ WriterFlush
    \/ WriterFinal

WriterFails ==
    \/ WriterFlushFails
    \/ WriterFinalFails

Workers == \E i \in 1..Len(workers) : Worker(i)

Next == Main \/ Signal \/ Workers \/ Writer \/ WriterFails

Spec == Init /\ [][Next]_vars

\* The pipeline when every store call succeeds, with the writer process
\* scheduled fairly: a step it can take (a timed get returns within its
\* second, a store call returns) is eventually taken.
NoFailNext == Main \/ Signal \/ Workers \/ Writer

LiveSpec == Init /\ [][NoFailNext]_vars /\ WF_vars(Writer)

\* The supervisor's own steps, from startup to the monitor loop, over every
\* dictionary (the file or the fallback) and worker count: the children it
\* starts have not been scheduled yet.
StartupNext ==
    \/ MainInitDb
    \/ MainLoad
    \/ MainSetup
    \/ MainPartition
    \/ MainSpawnWorker
    \/ MainSpawnWriter
    \/ MainMonitor
    \/ MainReport
    \/ Signal

StartupSpec == StartupInit /\ [][StartupNext]_vars

\* ------------------------------------------------------------------ properties
WriterEnded == wrpc \in {"done", "crashed"}

AllWorkersReturned == \A i \in 1..Len(workers) : workers[i].pc = "done"

Partitioned == mpc \in {"spawn", "monitor", "report", "join_workers", "join_writer", "done"}

RECURSIVE Flatten(_)
Flatten(chunks) ==
    IF chunks = <<>> THEN <<>> ELSE Head(chunks) \o Flatten(Tail(chunks))

RECURSIVE TotalPushed(_)
TotalPushed(ws) ==
    IF ws = <<>> THEN 0 ELSE Cardinality(Head(ws).pushed) + TotalPushed(Tail(ws))

UniqueKeys(d) ==
    \A i, j \in 1..Len(d.rows) : d.rows[i].password = d.rows[j].password => i = j

Batches == UNION {[1..n -> Candidates] : n \in 0..BatchSize}

\* C1: once the writer has ended, every candidate it took off the queue (in a
\* full batch or in the final partial batch) is a key of the store.
ShutdownCompleteness == WriterEnded => popped \subseteq Keys(db)

\* C2: after cancellation no worker is left blocked in put for ever: there is
\* no state where the event is set, the writer has returned, the queue is
\* full and a worker is still inside put.
NoWorkerBlockedForever ==
    ~(/\ stop_event
      /\ wrpc = "done"
      /\ Len(output_queue) >= QueueMaxsize
      /\ \E i \in 1..Len(workers) : workers[i].pc = "put")

\* C3: the writer is the last to stop: no worker is still running when the
\* writer has returned, so no step puts a candidate on the queue after that.
WriterStopsLast ==
    [][wrpc = "done" => Len(output_queue') <= Len(output_queue)]_vars

\* C4: the worker count main reports never exceeds config.max_workers.
ReportedWithinMaxWorkers == reported <= max_workers

\* C5: for every word list and worker count the partition step yields exactly
\* max_workers contiguous chunks whose concatenation is the word list.
PartitionExact ==
    /\ mpc # "crashed"
    /\ Partitioned =>
         /\ Len(word_chunks) = max_workers
         /\ Flatten(word_chunks) = words

\* C6: the queue never holds more than maxsize items; a worker inside put on
\* a full queue stays there, and the queue only shrinks by the writer's get.
BoundedChannel ==
    /\ [](Len(output_queue) <= QueueMaxsize)
    /\ [][/\ \A i \in 1..Len(workers) :
               (workers[i].pc = "put" /\ Len(output_queue) >= QueueMaxsize)
                  => workers'[i].pc = "put"
          /\ Len(output_queue') > Len(output_queue)
               => Len(output_queue) < QueueMaxsize
          /\ Len(output_queue') < Len(output_queue)
               => /\ wrpc = "get"
                  /\ output_queue' = Tail(output_queue)
                  /\ batch' = Append(batch, Head(output_queue))]_vars

\* C6 witness: capacity reached by one producer's completed put while another
\* producer, holding a different candidate, is still inside put.
OneProceedsOneBlocks ==
    \E i, j \in 1..Len(workers) :
        /\ workers[i].pc = "add"
        /\ workers[j].pc = "put"
        /\ workers[i].enhanced # workers[j].enhanced
        /\ Len(output_queue) = QueueMaxsize

\* C7: insert_batch is insert-or-ignore: on the store of every reachable
\* state and for every batch (with keys stored already, or repeated in the
\* batch) it leaves the old rows as they are, adds exactly the new keys, one
\* row per key, and applying the batch again changes nothing.
IdempotentInsert ==
    /\ UniqueKeys(db)
    /\ \A b \in Batches :
         LET once == insert_batch(db, b)
         IN /\ UniqueKeys(once)
            /\ Keys(once) = Keys(db) \cup Range(b)
            /\ SubSeq(once.rows, 1, Len(db.rows)) = db.rows
            /\ insert_batch(once, b) = once

\* C7 witness: everything pushed has been flushed, and the store gained fewer
\* rows than were flushed: some insert met a key it already had.
DuplicateIgnored ==
    /\ wrpc = "loop"
    /\ batch = <<>>
    /\ output_queue = <<>>
    /\ TotalPushed(workers) > Len(db.rows) - Cardinality(prior)

\* C8: a worker only pushes a candidate its exists query did not find, so no
\* key stored before the run is ever pushed; when every candidate was stored
\* before the run, nothing is pushed and the store keeps exactly its rows.
NoDuplicatePastStore ==
    /\ \A i \in 1..Len(workers) : workers[i].pushed \cap prior = {}
    /\ Range(output_queue) \cap prior = {}
    /\ \A i \in 1..Len(db.rows) :
         db.rows[i].password \in prior => db.rows[i].created = 0
    /\ prior = Candidates =>
         /\ output_queue = <<>>
         /\ popped = {}
         /\ \A i \in 1..Len(workers) : workers[i].pushed = {}
         /\ Len(db.rows) = Cardinality(prior)

\* C8 witness: every candidate was stored before the run and a worker's
\* exists query has found one (it never skipped on its own empty set).
StoredCandidateSkipped ==
    /\ prior = Candidates
    /\ \E i \in 1..Len(workers) :
         /\ workers[i].pc = "check"
         /\ workers[i].bloom_filter = {}

\* C9: a failing store call never ends the writer abnormally.
WriterNeverCrashes == wrpc # "crashed"

\* C10: startup is never fatal: main never dies before its children run.
StartupNeverFatal == mpc # "crashed"

\* C11: the event is one-way: once set it is set in every later state, and a
\* step that changes it sets it and changes nothing else of the program.
CancellationOneWay ==
    [][/\ stop_event => stop_event'
       /\ stop_event' # stop_event =>
            /\ stop_event'
            /\ UNCHANGED <<cfgvars, db, mainvars, workers, output_queue, writervars>>]_vars

\* C11 witness: the event was set and every component has run to its end.
StillSetAtShutdown ==
    /\ stop_event
    /\ mpc = "done"
    /\ wrpc = "done"
    /\ AllWorkersReturned

\* C12: the batch never holds more than batch_size candidates; the get that
\* fills it is followed by the flush, no get is made on a full batch, and a
\* flush that succeeds stores the batch and leaves an empty one.
BatchBound ==
    /\ [](/\ Len(batch) <= BatchSize
          /\ wrpc = "get" => Len(batch) < BatchSize)
    /\ [][/\ Len(batch') > Len(batch) =>
               /\ Len(batch) < BatchSize
               /\ Len(batch') = BatchSize => wrpc' = "flush"
          /\ (wrpc = "flush" /\ batch' # batch) =>
               /\ batch' = <<>>
               /\ Range(batch) \subseteq Keys(db')]_vars

\* C12 witness: a full batch has been flushed and replaced by an empty one.
FullBatchFlushed ==
    /\ wrpc = "loop"
    /\ batch = <<>>
    /\ Cardinality(popped) >= 1
    /\ popped \subseteq Keys(db)

\* C13: with store calls that succeed, a started writer terminates once the
\* event is set: it times out on the empty queue, sees the event, makes the
\* final flush and returns.
WriterTerminates == (stop_event /\ wrpc # "unborn") ~> (wrpc = "done")

\* C13 witness: the event is set, and the writer has returned after a final
\* flush of a partial batch.
WriterReturnedAfterCancel ==
    /\ stop_event
    /\ wrpc = "done"
    /\ batch # <<>>
    /\ Range(batch) \subseteq Keys(db)

WriterLeftLoop == wrpc \in {"final", "done", "crashed"}

\* C14: the writer leaves its loop only on 'event set and queue empty': it
\* is outside the loop only with the event set, the step that leaves the
\* loop sees the event set and the queue empty, and by then every item that
\* was queued when the event was set has been taken.
LoopExitOnlyWhenDrained ==
    /\ [](WriterLeftLoop => (stop_event /\ owed.left = 0))
    /\ [][(~WriterLeftLoop /\ WriterLeftLoop') =>
             (stop_event /\ output_queue = <<>>)]_vars

\* C14 witness: items were queued when the event was set, and the writer has
\* left its loop after taking them.
DrainedThenLeft ==
    /\ WriterLeftLoop
    /\ owed.queued > 0
    /\ owed.left = 0

LocalDedup ==
    \A i \in 1..Len(workers) :
        /\ workers[i].bloom_filter \subseteq workers[i].pushed
        /\ ~workers[i].repushed
        /\ workers[i].pc \in {"exists", "put"} =>
             workers[i].enhanced \notin workers[i].bloom_filter
        /\ workers[i].pc = "add" =>
             /\ workers[i].enhanced \in workers[i].pushed
             /\ workers[i].enhanced \notin workers[i].bloom_filter

\* C16 witness: with an empty store, a worker whose set is not empty has
\* skipped a candidate: nothing but its own set can have sent it to the stop
\* check from a candidate it drew.
SeenCandidateSkipped ==
    /\ Keys(db) = {}
    /\ \E i \in 1..Len(workers) :
         /\ workers[i].pc = "check"
         /\ workers[i].bloom_filter # {}
         /\ workers[i].bloom_filter = workers[i].pushed

\* C17: the store only grows: in every step the table stays created and the
\* rows it held are still its first rows, each with its key and timestamp.
StoreOnlyGrows ==
    [][/\ db.created => db'.created
       /\ Len(db'.rows) >= Len(db.rows)
       /\ SubSeq(db'.rows, 1, Len(db.rows)) = db.rows]_vars

\* C17 witness: a store that held rows before the run has been initialised
\* again by main, the workers and the writer, and has gained a row.
GrownAfterRepeatedInit ==
    /\ prior # {}
    /\ wrpc \notin {"unborn", "start"}
    /\ \A i \in 1..Len(workers) : workers[i].pc # "start"
    /\ Len(db.rows) > Cardinality(prior)
    /\ prior \subseteq Keys(db)

RECURSIVE TotalLate(_)
TotalLate(ws) ==
    IF ws = <<>> THEN 0 ELSE Head(ws).late + TotalLate(Tail(ws))

\* C18: with the event set each worker completes at most one more put, so
\* at most as many candidates as there are workers enter the queue after
\* cancellation.
OneLatePutPerWorker ==
    /\ \A i \in 1..Len(workers) : workers[i].late <= 1
    /\ TotalLate(workers) <= Len(workers)

\* C18 witness: a worker has returned after completing a put with the event
\* already set.
ReturnedAfterLatePut ==
    \E i \in 1..Len(workers) :
        /\ workers[i].pc = "done"
        /\ workers[i].late = 1

AllPushed == UNION {workers[i].pushed : i \in 1..Len(workers)}

\* C19: every key of the store was there before the run or was put on the
\* queue by a worker and then taken off it by the writer; what is queued or
\* batched came from a worker, and a step that changes the stored keys adds
\* exactly the writer's batch.
NoFabricatedRows ==
    /\ [](/\ Keys(db) \subseteq prior \cup popped
          /\ popped \subseteq AllPushed
          /\ Range(output_queue) \subseteq AllPushed
          /\ Range(batch) \subseteq popped)
    /\ [][Keys(db') # Keys(db) =>
            /\ wrpc \in {"flush", "final"}
            /\ Keys(db') = Keys(db) \cup Range(batch)]_vars

\* C19 witness: beside the keys stored before the run, the store holds a key
\* that a worker put and the writer took.
PoppedKeyStored ==
    /\ prior # {}
    /\ \E k \in Keys(db) \ prior :
        /\ k \in popped
        /\ \E i \in 1..Len(workers) : k \in workers[i].pushed

====
